---- MODULE Spec2Model ----
(***************************************************************************)
(* Model of src/main.go: text fragments stored in a Badger key-value       *)
(* store under the little-endian bytes of their embedding vector           *)
(* (makeEmbeddings), the linear-scan ranking of the stored vectors against *)
(* a query (rankNearest, cosineSimilarity) and the value-log garbage       *)
(* collection goroutine started by main.                                   *)
(*                                                                         *)
(* float64 values are modelled by the integers they hold (the vectors the  *)
(* model feeds in are integer valued); the results of float64 divisions    *)
(* and products are exact rationals with IEEE-754's +-Inf and NaN, so the  *)
(* model abstracts from rounding and from nothing else.                    *)
(***************************************************************************)
EXTENDS Integers, Sequences, FiniteSets, TLC

\* ------------------------------------------------------------------ bounds

\* Longest textChunks slice a run of makeEmbeddings is given.
MaxChunks == 2

\* Largest absolute value of the two free components of a vector of WideVectors.
MaxComponent == 20

\* Most value log files the engine holds ready to be rewritten.
MaxReclaim == 4

\* Calls of RunValueLogGC in one tick after which the model lets no further
\* value go stale (the program itself sets no limit).
MaxRuns == 3

\* A retry cap to hold the collector against: the program has none.
RetryCap == 3

\* ------------------------------------------------------------- arithmetic

Abs(x) == IF x < 0 THEN -x ELSE x

Min(x, y) == IF x <= y THEN x ELSE y

RECURSIVE Pow2(_)
Pow2(n) == IF n = 0 THEN 1 ELSE 2 * Pow2(n - 1)

RECURSIVE Log2Floor(_)
Log2Floor(n) == IF n < 2 THEN 0 ELSE 1 + Log2Floor(n \div 2)

RECURSIVE GCD(_, _)
GCD(x, y) == IF y = 0 THEN x ELSE GCD(y, x % y)

\* ---------------------------------------------------------------- float64

\* A float64 result: a rational n/d in lowest terms (d > 0), an infinity or NaN.
Fin(n, d) ==
    LET g == GCD(Abs(n), Abs(d))
        s == IF d < 0 THEN -1 ELSE 1
    IN [kind |-> "fin", n |-> s * (n \div g), d |-> s * (d \div g)]

Inf(sign) == [kind |-> "inf", n |-> sign, d |-> 0]

NaN == [kind |-> "nan", n |-> 0, d |-> 0]

FromInt(x) == Fin(x, 1)

Sign(x) == IF x.n < 0 THEN -1 ELSE 1

\* x * y on float64.
FMul(x, y) ==
    IF x.kind = "nan" \/ y.kind = "nan" THEN NaN
    ELSE IF x.kind = "inf" \/ y.kind = "inf"
         THEN IF x.n = 0 \/ y.n = 0 THEN NaN ELSE Inf(Sign(x) * Sign(y))
         ELSE Fin(x.n * y.n, x.d * y.d)

\* 1.0 / x on float64.
FInv(x) ==
    IF x.kind = "nan" THEN NaN
    ELSE IF x.kind = "inf" THEN Fin(0, 1)
    ELSE IF x.n = 0 THEN Inf(1)
    ELSE Fin(x.d, x.n)

\* x > y on float64: false as soon as one side is NaN.
FGt(x, y) ==
    IF x.kind = "nan" \/ y.kind = "nan" THEN FALSE
    ELSE IF x.kind = "inf" THEN (x.n > 0) /\ ~(y.kind = "inf" /\ y.n > 0)
    ELSE IF y.kind = "inf" THEN y.n < 0
    ELSE x.n * y.d > y.n * x.d

\* x >= y on float64: false as soon as one side is NaN.
FGeq(x, y) ==
    IF x.kind = "nan" \/ y.kind = "nan" THEN FALSE ELSE ~FGt(y, x)

\* ------------------------------------------------------------ vector codec

\* The 8 bytes binary.Write(buf, binary.LittleEndian, x) appends for one float64
\* holding the integer x, |x| < 2^21: math.Float64bits(x) is sign(1) | biased
\* exponent(11) | fraction(52), least significant byte first. The low 32
\* fraction bits of such an x are zero; frac holds the upper 20.
PutFloat64BigEndian(x) ==
    IF x = 0 THEN <<0, 0, 0, 0, 0, 0, 0, 0>>
    ELSE LET e    == Log2Floor(Abs(x))
             bexp == e + 1023
             frac == (Abs(x) - Pow2(e)) * Pow2(20 - e)
             sbit == IF x < 0 THEN 1 ELSE 0
         IN << sbit * 128 + bexp \div 16,
               (bexp % 16) * 16 + frac \div 65536,
               (frac \div 256) % 256,
               frac % 256,
               0, 0, 0, 0 >>

PutFloat64(x) ==
    IF x = 0 THEN <<0, 0, 0, 0, 0, 0, 0, 0>>
    ELSE LET e    == Log2Floor(Abs(x))
             bexp == e + 1023
             frac == (Abs(x) - Pow2(e)) * Pow2(20 - e)
             sbit == IF x < 0 THEN 1 ELSE 0
         IN << 0, 0, 0, 0,
               frac % 256,
               (frac \div 256) % 256,
               (bexp % 16) * 16 + frac \div 65536,
               sbit * 128 + bexp \div 16 >>

\* math.Float64frombits(binary.LittleEndian.Uint64(b)) for 8 bytes b holding an
\* integer-valued float64: the inverse computation, from the bytes alone.
Float64(b) ==
    LET sbit == b[8] \div 128
        bexp == (b[8] % 128) * 16 + b[7] \div 16
        frac == (b[7] % 16) * 65536 + b[6] * 256 + b[5]
        e    == bexp - 1023
    IN IF bexp = 0 THEN 0
       ELSE (IF sbit = 1 THEN -1 ELSE 1) * (Pow2(e) + frac \div Pow2(20 - e))

\* binary.Write(buf, binary.LittleEndian, embedding); buf.Bytes().
RECURSIVE EncodeVec(_)
EncodeVec(v) == IF v = <<>> THEN <<>> ELSE PutFloat64(Head(v)) \o EncodeVec(Tail(v))

\* key := make([]float64, buf.Len()/8); binary.Read(buf, binary.LittleEndian, key):
\* reads 8*len(key) bytes and leaves any trailing len % 8 bytes unread; it has no
\* error to return for a buffer of at least that length.
DecodeKey(k) ==
    [i \in 1..(Len(k) \div 8) |-> Float64(SubSeq(k, 8 * (i - 1) + 1, 8 * i))]

\* ------------------------------------------------- the embedding provider

\* The texts the program is run on (textChunks, the query).
Texts == {"hello", "fox", "lorem"}

VecA == <<3, 0, 0, 0>>

VecB == <<1, -1, 0, 0>>

VecZ == <<0, 0, 0, 0>>

\* The embeddings the model can answer with. The dimension is 4, the least that
\* lets the two log statements slice a key ([:3], [:4]).
Vectors == {VecA, VecB, VecZ}

\* What one call of m.Encode returns: an error, or a vector (which the model
\* interface does not promise to be non-empty).
Answer(err, vec) == [err |-> err, vec |-> vec]

EmbedResults ==
    {Answer("nil", v) : v \in Vectors \cup {<<>>}} \cup {Answer("ProviderError", <<>>)}

\* getEmbedding(m, text): the provider's answer, err first.
getEmbedding(answer) ==
    IF answer.err # "nil" THEN Answer(answer.err, <<>>) ELSE Answer("nil", answer.vec)

\* One entry of textChunks with the answer the provider gives for it.
Chunks == [text : Texts, answer : EmbedResults]

RECURSIVE SeqsUpTo(_, _)
SeqsUpTo(S, n) ==
    IF n = 0 THEN {<<>>}
    ELSE LET shorter == SeqsUpTo(S, n - 1)
         IN shorter \cup {Append(s, x) : s \in {t \in shorter : Len(t) = n - 1}, x \in S}

ChunkSeqs == SeqsUpTo(Chunks, MaxChunks)

\* --------------------------------------------------------------- the store

EmptyStore == [k \in {} |-> "none"]

\* bytes.Compare(a, b) < 0: Badger iterates in this order.
RECURSIVE BytesLess(_, _)
BytesLess(a, b) ==
    IF a = <<>> THEN b # <<>>
    ELSE IF b = <<>> THEN FALSE
    ELSE IF Head(a) # Head(b) THEN Head(a) < Head(b)
    ELSE BytesLess(Tail(a), Tail(b))

\* The keys an iterator over the whole store yields: it.Rewind(), it.Next().
RECURSIVE KeysInOrder(_)
KeysInOrder(keys) ==
    IF keys = {} THEN <<>>
    ELSE LET k == CHOOSE x \in keys : \A o \in keys \ {x} : BytesLess(x, o)
         IN <<k>> \o KeysInOrder(keys \ {k})

\* A write transaction: its pending writes, the error that stopped the closure
\* given to db.Update and the chunks the closure took up (the failing one last).
Txn(pending, err, calls) == [pending |-> pending, err |-> err, calls |-> calls]

\* txn.Set(key, value) keeping the first value written under a key.
TxnSetKeepFirst(pending, key, value) ==
    IF Len(key) = 0 THEN [err |-> "ErrEmptyKey", pending |-> pending]
    ELSE [err |-> "nil", pending |-> pending @@ (key :> value)]

\* txn.Set(key, value): Badger refuses the empty key; a later Set of a key
\* replaces the pending entry.
TxnSet(pending, key, value) ==
    IF Len(key) = 0 THEN [err |-> "ErrEmptyKey", pending |-> pending]
    ELSE [err |-> "nil", pending |-> (key :> value) @@ pending]

\* fn(text) of makeEmbeddings on one chunk: embed, encode, set.
fn(txn, chunk) ==
    LET embedding == getEmbedding(chunk.answer)
        calls     == Append(txn.calls, chunk)
    IN IF embedding.err # "nil" THEN Txn(txn.pending, embedding.err, calls)
       ELSE LET set == TxnSet(txn.pending, EncodeVec(embedding.vec), chunk.text)
            IN Txn(set.pending, set.err, calls)

\* for _, chunk := range textChunks: the closure returns at the first error.
RECURSIVE RunChunks(_, _)
RunChunks(txn, chunks) ==
    IF chunks = <<>> THEN txn
    ELSE LET next == fn(txn, Head(chunks))
         IN IF next.err # "nil" THEN next ELSE RunChunks(next, Tail(chunks))

\* db.Update committing the pending writes whatever the closure returned.
UpdateCommitOnError(kv, txn, commitOk) ==
    [err |-> txn.err, store |-> txn.pending @@ kv]

\* db.Update(closure): the transaction is discarded when the closure returns an
\* error and committed otherwise; Commit of no pending write returns nil, and a
\* Commit the engine fails (commitOk false) applies nothing.
Update(kv, txn, commitOk) ==
    IF txn.err # "nil" THEN [err |-> txn.err, store |-> kv]
    ELSE IF DOMAIN txn.pending = {} THEN [err |-> "nil", store |-> kv]
    ELSE IF ~commitOk THEN [err |-> "StoreError", store |-> kv]
    ELSE [err |-> "nil", store |-> txn.pending @@ kv]

\* key[:n] of a decoded key (its capacity is its length).
SliceTo(key, n) ==
    IF Len(key) < n THEN [panic |-> TRUE, key |-> <<>>]
    ELSE [panic |-> FALSE, key |-> SubSeq(key, 1, n)]

\* The db.View of makeEmbeddings: every record in key order, its key decoded
\* and key[:3] logged with the value.
RECURSIVE ViewLog(_, _)
ViewLog(kv, keys) ==
    IF keys = <<>> THEN [panic |-> "none", lines |-> <<>>]
    ELSE LET head == SliceTo(DecodeKey(Head(keys)), 3)
             rest == ViewLog(kv, Tail(keys))
         IN IF head.panic
            THEN [panic |-> "slice bounds out of range", lines |-> <<>>]
            ELSE [panic |-> rest.panic,
                  lines |-> <<[key |-> head.key, value |-> kv[Head(keys)]]>> \o rest.lines]

\* -------------------------------------------------------------- similarity

RECURSIVE Dot(_, _, _)
Dot(a, b, n) == IF n = 0 THEN 0 ELSE Dot(a, b, n - 1) + a[n] * b[n]

\* cosineSimilarity(a, b) as written: magnitudeA is overwritten by
\* 1/(|a|^2 |b|^2) before magnitudeB is computed from it, and no square root is
\* taken. The loop ranges over a and indexes b.
cosineSimilarity(a, b) ==
    LET n          == Len(a)
        dotProduct == FromInt(Dot(a, b, n))
        sumA       == FromInt(Dot(a, a, n))
        sumB       == FromInt(Dot(b, b, n))
        magnitudeA == FInv(FMul(sumA, sumB))
        magnitudeB == FInv(FMul(magnitudeA, sumB))
    IN FMul(FMul(dotProduct, magnitudeA), magnitudeB)

Ranked(rank, key) == [Rank |-> rank, Key |-> key]

\* ------------------------------------------------------------- sort.Slice

\* Go's sort.Slice (pdqsort_func, Go 1.19 and later, which Badger v4 needs) on
\* data[a:b], indices from 0 as in Go. less is the closure of rankNearest.
less(data, i, j) == FGt(data[i + 1].Rank, data[j + 1].Rank)

swap(data, i, j) == [data EXCEPT ![i + 1] = data[j + 1], ![j + 1] = data[i + 1]]

RECURSIVE insertionInner(_, _, _)
insertionInner(data, a, j) ==
    IF j > a /\ less(data, j, j - 1)
    THEN insertionInner(swap(data, j, j - 1), a, j - 1)
    ELSE data

RECURSIVE insertionOuter(_, _, _, _)
insertionOuter(data, a, b, i) ==
    IF i < b THEN insertionOuter(insertionInner(data, a, i), a, b, i + 1) ELSE data

insertionSort(data, a, b) == insertionOuter(data, a, b, a + 1)

\* order2_func: the two indices in order, counting a swap of them.
order2(data, x, y, swaps) ==
    IF less(data, y, x) THEN [a |-> y, b |-> x, swaps |-> swaps + 1]
    ELSE [a |-> x, b |-> y, swaps |-> swaps]

\* choosePivot_func for a length in 8..49: the median of the three quartile
\* elements and the number of index swaps that found it.
choosePivot(data, a, b) ==
    LET q  == (b - a) \div 4
        o1 == order2(data, a + q, a + 2 * q, 0)
        o2 == order2(data, o1.b, a + 3 * q, o1.swaps)
        o3 == order2(data, o1.a, o2.a, o2.swaps)
    IN [pivot |-> o3.b, swaps |-> o3.swaps]

\* partialInsertionSort_func on fewer than 50 elements: true when no element is
\* less than its predecessor, false (and nothing moved) otherwise.
partialInsertionSort(data, a, b) ==
    \A i \in (a + 1)..(b - 1) : ~less(data, i, i - 1)

RECURSIVE scanUp(_, _, _, _)
scanUp(data, a, i, j) ==
    IF i <= j /\ less(data, i, a) THEN scanUp(data, a, i + 1, j) ELSE i

RECURSIVE scanDown(_, _, _, _)
scanDown(data, a, i, j) ==
    IF i <= j /\ ~less(data, j, a) THEN scanDown(data, a, i, j - 1) ELSE j

RECURSIVE partitionLoop(_, _, _, _)
partitionLoop(data, a, i, j) ==
    LET i2 == scanUp(data, a, i, j)
        j2 == scanDown(data, a, i2, j)
    IN IF i2 > j2 THEN [data |-> data, j |-> j2]
       ELSE partitionLoop(swap(data, i2, j2), a, i2 + 1, j2 - 1)

\* partition_func: the pivot goes to data[a], the elements less than it to its
\* left, and it is swapped into its place mid.
partition(data, a, b, pivot) ==
    LET d0 == swap(data, a, pivot)
        i  == scanUp(d0, a, a + 1, b - 1)
        j  == scanDown(d0, a, i, b - 1)
    IN IF i > j
       THEN [data |-> swap(d0, j, a), mid |-> j, already |-> TRUE]
       ELSE LET r == partitionLoop(swap(d0, i, j), a, i + 1, j - 1)
            IN [data |-> swap(r.data, r.j, a), mid |-> r.j, already |-> FALSE]

\* pdqsort_func. Slices of at most maxInsertion elements are insertion sorted.
\* A longer one is left alone when it looks sorted, else partitioned around the
\* chosen pivot and both sides sorted. The model is exact for every length up to
\* maxInsertion + 1, where both sides of the first partition are insertion
\* sorted: breakPatterns, heapSort, partitionEqual and reverseRange are only
\* reached on longer slices.
maxInsertion == 12

RECURSIVE pdqsort(_, _, _, _, _)
pdqsort(data, a, b, wasBalanced, wasPartitioned) ==
    IF b - a <= maxInsertion THEN insertionSort(data, a, b)
    ELSE LET cp == choosePivot(data, a, b)
         IN IF wasBalanced /\ wasPartitioned /\ cp.swaps = 0
               /\ partialInsertionSort(data, a, b)
            THEN data
            ELSE LET p        == partition(data, a, b, cp.pivot)
                     leftLen  == p.mid - a
                     rightLen == b - p.mid
                     balanced == Min(leftLen, rightLen) >= (b - a) \div 8
                 IN IF leftLen < rightLen
                    THEN pdqsort(pdqsort(p.data, a, p.mid, TRUE, TRUE),
                                 p.mid + 1, b, balanced, p.already)
                    ELSE pdqsort(pdqsort(p.data, p.mid + 1, b, TRUE, TRUE),
                                 a, p.mid, balanced, p.already)

\* sort.Slice(ranked, func(i, j int) bool { return ranked[i].Rank > ranked[j].Rank }).
SortSlice(ranked) == pdqsort(ranked, 0, Len(ranked), TRUE, TRUE)

\* ------------------------------------------------------------ rankNearest

\* The first db.View of rankNearest: every key in key order, decoded and
\* scored against the target. cosineSimilarity indexes the key by the target's
\* indices, which panics on a shorter key.
RECURSIVE Scan(_, _)
Scan(target, keys) ==
    IF keys = <<>> THEN [panic |-> "none", ranked |-> <<>>]
    ELSE LET key  == DecodeKey(Head(keys))
         IN IF Len(key) < Len(target)
            THEN [panic |-> "index out of range", ranked |-> <<>>]
            ELSE LET rest == Scan(target, Tail(keys))
                 IN [panic  |-> rest.panic,
                     ranked |-> <<Ranked(cosineSimilarity(target, key), key)>> \o rest.ranked]

Outcome(err, panic, target, ranked, nearest) ==
    [err |-> err, panic |-> panic, target |-> target, ranked |-> ranked, nearest |-> nearest]

\* rankNearest(db, m, query) on the records kv, the provider answering the
\* query with answer.
rankNearest(kv, answer) ==
    LET embedding == getEmbedding(answer)
        target    == embedding.vec
        scan      == Scan(target, KeysInOrder(DOMAIN kv))
        ranked    == SortSlice(scan.ranked)
        key       == EncodeVec(ranked[1].Key)
    IN IF embedding.err # "nil"
       THEN Outcome(embedding.err, "none", <<>>, <<>>, "none")
       ELSE IF scan.panic # "none"
       THEN Outcome("none", scan.panic, target, <<>>, "none")
       ELSE IF Len(ranked) = 0
       THEN Outcome("none", "index out of range", target, ranked, "none")
       ELSE IF Len(key) = 0
       THEN Outcome("ErrEmptyKey", "none", target, ranked, "none")
       ELSE IF key \notin DOMAIN kv
       THEN Outcome("ErrKeyNotFound", "none", target, ranked, "none")
       ELSE IF \E i \in 1..Len(ranked) : SliceTo(ranked[i].Key, 4).panic
       THEN Outcome("none", "slice bounds out of range", target, ranked, kv[key])
       ELSE Outcome("nil", "none", target, ranked, kv[key])

\* ------------------------------------------------------------------ state

VARIABLES
    store,        \* the records of ./badger.db: key bytes -> text
    db,           \* what badger.Open gave main: "open", or "nil" after an error
    pc,           \* where main stands: "make", "rank", "exit"
    txn,          \* the write transaction of the last makeEmbeddings
    makeErr,      \* what makeEmbeddings returned ("none": not run)
    inserted,     \* the lines its db.View logged
    found,        \* what rankNearest came to ("none": not run)
    panicked,     \* the panic that ended the process ("none": none)
    tick,         \* ticks waiting in ticker.C (a channel of capacity 1)
    gcPc,         \* the collector goroutine: "wait" on ticker.C, or at "again"
    gcRuns,       \* calls of RunValueLogGC since the last tick was received
    gcOk,         \* those that returned nil
    gcErr,        \* what the last call returned ("none": no call yet)
    reclaimable   \* value log files the engine would rewrite

mainVars == <<store, db, pc, txn, makeErr, inserted, found, panicked>>

gcVars == <<tick, gcPc, gcRuns, gcOk, gcErr>>

vars == <<store, db, pc, txn, makeErr, inserted, found, panicked,
          tick, gcPc, gcRuns, gcOk, gcErr, reclaimable>>

NoTxn == Txn(EmptyStore, "none", <<>>)

NotRun == Outcome("none", "none", <<>>, <<>>, "none")

\* main up to the call of makeEmbeddings: a failed badger.Open is logged and db
\* stays nil; a failed tasks.Load is fatal.
StartMain(opened, loaded) ==
    [db |-> IF opened THEN "open" ELSE "nil", pc |-> IF loaded THEN "make" ELSE "exit"]

\* The first run of the program, on a directory with no database in it.
Init ==
    /\ store = EmptyStore
    /\ reclaimable = 0
    /\ \E opened \in BOOLEAN, loaded \in BOOLEAN :
          /\ db = StartMain(opened, loaded).db
          /\ pc = StartMain(opened, loaded).pc
    /\ txn = NoTxn
    /\ makeErr = "none"
    /\ inserted = <<>>
    /\ found = NotRun
    /\ panicked = "none"
    /\ tick = 0
    /\ gcPc = "wait"
    /\ gcRuns = 0
    /\ gcOk = 0
    /\ gcErr = "none"

\* --------------------------------------------------------------- actions

\* makeEmbeddings(db, m) and main's check of its result, textChunks and the
\* provider's answers drawn from chunkSeqs: one write transaction over
\* textChunks, then the logging read transaction. An error is fatal.
MakeEmbeddingsOn(chunkSeqs) ==
    /\ pc = "make"
    /\ \E chunks \in chunkSeqs, commitOk \in BOOLEAN :
          LET t == RunChunks(Txn(EmptyStore, "nil", <<>>), chunks)
              u == Update(store, t, commitOk)
              v == ViewLog(u.store, KeysInOrder(DOMAIN u.store))
          IN IF db = "nil"
             THEN /\ panicked' = "nil pointer dereference"
                  /\ pc' = "exit"
                  /\ UNCHANGED <<store, txn, makeErr, inserted>>
             ELSE /\ txn' = t
                  /\ store' = u.store
                  /\ makeErr' = u.err
                  /\ inserted' = IF u.err = "nil" THEN v.lines ELSE <<>>
                  /\ panicked' = IF u.err = "nil" THEN v.panic ELSE "none"
                  /\ pc' = IF u.err = "nil" /\ v.panic = "none" THEN "rank" ELSE "exit"
    /\ UNCHANGED <<db, found, tick, gcPc, gcRuns, gcOk, gcErr, reclaimable>>

MakeEmbeddings == MakeEmbeddingsOn(ChunkSeqs)

\* rankNearest(db, m, query) and the end of main.
RankNearest ==
    /\ pc = "rank"
    /\ \E answer \in EmbedResults :
          /\ found' = rankNearest(store, answer)
          /\ panicked' = found'.panic
    /\ pc' = "exit"
    /\ UNCHANGED <<store, db, txn, makeErr, inserted,
                   tick, gcPc, gcRuns, gcOk, gcErr, reclaimable>>

\* The program is run again on the same directory: a new process, with a new
\* ticker and collector goroutine.
Restart ==
    /\ pc = "exit"
    /\ \E opened \in BOOLEAN, loaded \in BOOLEAN :
          /\ db' = StartMain(opened, loaded).db
          /\ pc' = StartMain(opened, loaded).pc
    /\ txn' = NoTxn
    /\ makeErr' = "none"
    /\ inserted' = <<>>
    /\ found' = NotRun
    /\ panicked' = "none"
    /\ tick' = 0
    /\ gcPc' = "wait"
    /\ gcRuns' = 0
    /\ gcOk' = 0
    /\ gcErr' = "none"
    /\ UNCHANGED <<store, reclaimable>>

Next == MakeEmbeddings \/ RankNearest \/ Restart

Spec == Init /\ [][Next]_vars

\* ---------------------------------------------------------- the collector

\* db.RunValueLogGC(0.7): nil after rewriting one value log file, ErrNoRewrite
\* when no file qualifies, and whatever error the engine meets (failed).
RunValueLogGC(files, failed) ==
    IF failed THEN [err |-> "StoreError", files |-> files]
    ELSE IF files = 0 THEN [err |-> "ErrNoRewrite", files |-> files]
    ELSE [err |-> "nil", files |-> files - 1]

\* The collector that goes back to again whatever the call returned.
AfterGCAlways(err) == "gc"

\* if err == nil { goto again }; otherwise the goroutine is back at the range
\* over ticker.C.
AfterGC(err) == IF err = "nil" THEN "gc" ELSE "wait"

\* The ticker fires: the tick waits in ticker.C, unless one waits there already.
Tick ==
    /\ tick = 0
    /\ tick' = 1
    /\ UNCHANGED <<mainVars, gcPc, gcRuns, gcOk, gcErr, reclaimable>>

\* for range ticker.C: the goroutine takes the tick.
GCReceive ==
    /\ gcPc = "wait"
    /\ tick = 1
    /\ tick' = 0
    /\ gcPc' = "gc"
    /\ gcRuns' = 0
    /\ gcOk' = 0
    /\ gcErr' = "none"
    /\ UNCHANGED <<mainVars, reclaimable>>

\* again: err := db.RunValueLogGC(0.7); if err == nil { goto again }
GCRun ==
    /\ gcPc = "gc"
    /\ \E failed \in BOOLEAN :
          LET r == RunValueLogGC(reclaimable, failed)
          IN /\ gcErr' = r.err
             /\ reclaimable' = r.files
             /\ gcRuns' = gcRuns + 1
             /\ gcOk' = IF r.err = "nil" THEN gcOk + 1 ELSE gcOk
             /\ gcPc' = AfterGC(r.err)
    /\ UNCHANGED <<mainVars, tick>>

\* A stored value goes stale (txn.Set over a key that holds one) until a value
\* log file is worth rewriting.
StaleValue ==
    /\ reclaimable < MaxReclaim
    /\ gcRuns < MaxRuns
    /\ reclaimable' = reclaimable + 1
    /\ UNCHANGED <<mainVars, gcVars>>

\* The collector goroutine of a process whose database opened, beside a main
\* goroutine that is not followed: the two share no variable, RunValueLogGC
\* changing no record.
InitGC ==
    /\ store = EmptyStore
    /\ reclaimable \in 0..MaxReclaim
    /\ db = "open"
    /\ pc = "make"
    /\ txn = NoTxn
    /\ makeErr = "none"
    /\ inserted = <<>>
    /\ found = NotRun
    /\ panicked = "none"
    /\ tick = 0
    /\ gcPc = "wait"
    /\ gcRuns = 0
    /\ gcOk = 0
    /\ gcErr = "none"

NextGC == Tick \/ GCReceive \/ GCRun \/ StaleValue

SpecGC == InitGC /\ [][NextGC]_vars

\* ------------------------------------------- a directory with other records

\* Keys another writer left in ./badger.db: the bytes of VecB followed by four
\* more, and four bytes alone.
ForeignKeys == {EncodeVec(VecB) \o <<1, 2, 3, 4>>, <<1, 2, 3, 4>>}

\* The first run of the program on a directory that holds such a record.
InitForeign ==
    /\ \E k \in ForeignKeys : store = (k :> "lorem")
    /\ reclaimable = 0
    /\ \E opened \in BOOLEAN, loaded \in BOOLEAN :
          /\ db = StartMain(opened, loaded).db
          /\ pc = StartMain(opened, loaded).pc
    /\ txn = NoTxn
    /\ makeErr = "none"
    /\ inserted = <<>>
    /\ found = NotRun
    /\ panicked = "none"
    /\ tick = 0
    /\ gcPc = "wait"
    /\ gcRuns = 0
    /\ gcOk = 0
    /\ gcErr = "none"

SpecForeign == InitForeign /\ [][Next]_vars

\* ------------------------------------------------ a corpus sort.Slice splits

\* Embeddings with many equal scores against VecA and VecB.
SortVectors ==
    { <<1, 0, 0, 0>>, <<1, -1, 0, 0>>, <<1, 0, 0, 1>>,
      <<1, 1, 1, 0>>, <<1, 1, -1, 0>>, <<1, -1, 1, 0>>, <<1, -1, -1, 0>>,
      <<1, 1, 0, 1>>, <<1, 1, 0, -1>>, <<1, -1, 0, 1>>, <<1, -1, 0, -1>>,
      <<1, 0, 1, 1>>, <<1, 0, 1, -1>>, <<1, 0, -1, 1>>, <<1, 0, -1, -1>> }

RECURSIVE SetToSeq(_)
SetToSeq(S) ==
    IF S = {} THEN <<>>
    ELSE LET x == CHOOSE y \in S : TRUE IN <<x>> \o SetToSeq(S \ {x})

\* textChunks of maxInsertion + 1 entries, the first length sort.Slice does not
\* insertion sort, with pairwise different embeddings.
LongChunkSeqs ==
    { [i \in 1..(maxInsertion + 1) |->
          [text |-> "lorem", answer |-> Answer("nil", SetToSeq(corpus)[i])]] :
      corpus \in {c \in SUBSET SortVectors : Cardinality(c) = maxInsertion + 1} }

MakeLong == MakeEmbeddingsOn(LongChunkSeqs)

\* One run of the program on such textChunks, in a fresh directory.
InitSort ==
    /\ store = EmptyStore
    /\ reclaimable = 0
    /\ db = "open"
    /\ pc = "make"
    /\ txn = NoTxn
    /\ makeErr = "none"
    /\ inserted = <<>>
    /\ found = NotRun
    /\ panicked = "none"
    /\ tick = 0
    /\ gcPc = "wait"
    /\ gcRuns = 0
    /\ gcOk = 0
    /\ gcErr = "none"

NextSort == MakeLong \/ RankNearest

SpecSort == InitSort /\ [][NextSort]_vars

\* --------------------------------------------- embeddings of many values

\* Vectors whose first two components range over every integer up to
\* MaxComponent in absolute value: all signs, exponents and mantissas of them.
WideVectors ==
    { <<x, y, 1, -1>> : x \in (-MaxComponent)..MaxComponent,
                        y \in (-MaxComponent)..MaxComponent }

\* textChunks of one entry, its embedding any of WideVectors.
WideChunkSeqs ==
    { <<[text |-> "hello", answer |-> Answer("nil", v)]>> : v \in WideVectors }

MakeWide == MakeEmbeddingsOn(WideChunkSeqs)

\* One run of the program on such textChunks, in a fresh directory.
InitCodec ==
    /\ store = EmptyStore
    /\ reclaimable = 0
    /\ db = "open"
    /\ pc = "make"
    /\ txn = NoTxn
    /\ makeErr = "none"
    /\ inserted = <<>>
    /\ found = NotRun
    /\ panicked = "none"
    /\ tick = 0
    /\ gcPc = "wait"
    /\ gcRuns = 0
    /\ gcOk = 0
    /\ gcErr = "none"

NextCodec == MakeWide \/ RankNearest

SpecCodec == InitCodec /\ [][NextCodec]_vars

\* ----------------------------------------------------------------- claims

Range(f) == {f[i] : i \in DOMAIN f}

NonZero(v) == Dot(v, v, Len(v)) > 0

\* A step of makeEmbeddings (the only one that leaves pc = "make").
MakeStep == pc = "make" /\ pc' # "make"

\* rankNearest ran and the provider answered its query.
Ranked0 == found # NotRun /\ found.err # "ProviderError"

\* C1: a makeEmbeddings that returns an error (embedding, empty key, commit)
\* leaves the records of the store as they were, and its logging read
\* transaction does not run: nothing the aborted transaction wrote is there
\* for a later read.
C1_AllOrNothing ==
    [][ (MakeStep /\ makeErr' \notin {"none", "nil"})
            => (store' = store /\ inserted' = <<>>) ]_vars

\* C1 witness: the transaction failed on an empty key after it had written a
\* record that the store does not hold.
C1_Witness ==
    /\ makeErr = "ErrEmptyKey"
    /\ \E k \in DOMAIN txn.pending : k \notin DOMAIN store

\* C2: rankNearest on a store with no record returns NotFoundError and does
\* not panic.
C2_EmptyStoreNotFound ==
    (Ranked0 /\ DOMAIN store = {})
        => (found.err = "NotFoundError" /\ found.panic = "none")

SignedSquare(x) == x * Abs(x)

\* cos(q, b1) >= cos(q, b2), the cosine being dot / (|q| |b|): dot1/sqrt(n1) >=
\* dot2/sqrt(n2) for the squared norms n1, n2, decided on the signed squares.
CosGeq(q, b1, b2) ==
    SignedSquare(Dot(q, b1, Len(q))) * Dot(b2, b2, Len(b2))
        >= SignedSquare(Dot(q, b2, Len(q))) * Dot(b1, b1, Len(b1))

\* C3: over non-zero vectors of one dimension, the vector ranked first is a
\* stored one of greatest cosine similarity to the query, and the text
\* returned is its text.
C3_TopIsCosineNearest ==
    ( /\ found.err = "nil"
      /\ NonZero(found.target)
      /\ \A k \in DOMAIN store :
            Len(k) = 8 * Len(found.target) /\ NonZero(DecodeKey(k)) )
        => /\ EncodeVec(found.ranked[1].Key) \in DOMAIN store
           /\ found.nearest = store[EncodeVec(found.ranked[1].Key)]
           /\ \A k \in DOMAIN store :
                 CosGeq(found.target, found.ranked[1].Key, DecodeKey(k))

\* C4: the score of (query, key) is the score of (key, query) for non-zero
\* vectors of one length.
C4_Symmetric ==
    \A i \in 1..Len(found.ranked) :
        ( /\ NonZero(found.target)
          /\ NonZero(found.ranked[i].Key)
          /\ Len(found.ranked[i].Key) = Len(found.target) )
            => found.ranked[i].Rank
                   = cosineSimilarity(found.ranked[i].Key, found.target)

\* C5: for a query of non-zero norm, the ranked list is a permutation of the
\* scanned candidates and the score of its first entry is >= the score of
\* every other entry, the undefined score of a zero candidate included.
C5_TopScoreIsMaximal ==
    (found.err = "nil" /\ NonZero(found.target))
        => /\ Len(found.ranked) = Cardinality(DOMAIN store)
           /\ {EncodeVec(r.Key) : r \in Range(found.ranked)} = DOMAIN store
           /\ \A i \in 2..Len(found.ranked) :
                 FGeq(found.ranked[1].Rank, found.ranked[i].Rank)

\* C6: two candidates of equal score stand in the ranked list in the order the
\* scan met them, the key order of the store.
C6_Stable ==
    \A i \in 1..Len(found.ranked), j \in 1..Len(found.ranked) :
        ( /\ i < j
          /\ found.ranked[i].Rank.kind # "nan"
          /\ found.ranked[i].Rank = found.ranked[j].Rank )
            => BytesLess(EncodeVec(found.ranked[i].Key), EncodeVec(found.ranked[j].Key))

\* The last text a transaction's calls gave for vector v.
RECURSIVE LastText(_, _)
LastText(calls, v) ==
    IF calls[Len(calls)].answer.vec = v THEN calls[Len(calls)].text
    ELSE LastText(SubSeq(calls, 1, Len(calls) - 1), v)

\* C7: a makeEmbeddings that commits into an empty store leaves one record
\* for each distinct vector of the batch, holding the text of the last pair
\* with that vector; and a batch is refused only for a pair that has no
\* embedding or an empty one (or by the engine at commit), never for a
\* repeated vector.
C7_OneRecordPerVector ==
    [][ (MakeStep /\ db = "open" /\ store = EmptyStore)
            => LET calls == txn'.calls
                   vecs  == {c.answer.vec : c \in Range(calls)}
               IN /\ makeErr' = "nil"
                     => /\ Cardinality(DOMAIN store') = Cardinality(vecs)
                        /\ DOMAIN store' = {EncodeVec(v) : v \in vecs}
                        /\ \A v \in vecs : store'[EncodeVec(v)] = LastText(calls, v)
                  /\ makeErr' \notin {"nil", "StoreError"}
                     => LET last == calls[Len(calls)].answer
                        IN last.err # "nil" \/ last.vec = <<>> ]_vars

\* C7 witness: two pairs with one vector and two texts were committed and the
\* store holds the single record of the second; or two pairs with two vectors
\* and the store holds two records.
C7_Witness ==
    /\ makeErr = "nil"
    /\ Len(txn.calls) = 2
    /\ txn.calls[1].answer.vec = txn.calls[2].answer.vec
    /\ txn.calls[1].text # txn.calls[2].text
    /\ DOMAIN store = {EncodeVec(txn.calls[2].answer.vec)}
    /\ store[EncodeVec(txn.calls[2].answer.vec)] = txn.calls[2].text

\* C8: every vector the provider answered with encodes to 8 bytes a component
\* and decodes to itself; every stored key is the encoding of its decoding, so
\* the keys rankNearest re-encodes are the stored keys and its lookup finds
\* the record.
C8_RoundTrip ==
    /\ \A c \in Range(txn.calls) :
          c.answer.err = "nil"
              => /\ Len(EncodeVec(c.answer.vec)) = 8 * Len(c.answer.vec)
                 /\ DecodeKey(EncodeVec(c.answer.vec)) = c.answer.vec
    /\ \A k \in DOMAIN store : EncodeVec(DecodeKey(k)) = k
    /\ \A r \in Range(found.ranked) : EncodeVec(r.Key) \in DOMAIN store
    /\ found.err # "ErrKeyNotFound"

\* C8 witness: rankNearest decoded the key of a stored vector with negative
\* components and non-zero mantissas, re-encoded it and found its text.
C8_Witness ==
    /\ found.err = "nil"
    /\ found.ranked[1].Key = <<-13, 7, 1, -1>>
    /\ found.nearest = "hello"

\* C9: a stored key whose length is no multiple of 8 makes the scan that meets
\* it (the logging one of makeEmbeddings, the ranking one of rankNearest) end
\* with DecodingError.
C9_BadKeyLengthFails ==
    (\E k \in DOMAIN store : Len(k) % 8 # 0)
        => /\ Ranked0 => (found.err = "DecodingError" /\ found.panic = "none")
           /\ (txn.err = "nil" /\ makeErr \notin {"none", "StoreError"})
                 => (makeErr = "DecodingError" /\ panicked = "none")

====
